---- MODULE Spec2Model ----
(***************************************************************************)
(* Model of the MCP gateway's connection-and-routing engine                *)
(* (backend/src/gateway.py): MCPServerManager (provider supervisor) and    *)
(* MCPGateway (session router).                                            *)
(*                                                                         *)
(* Every coroutine is cut at its await points: the code between two awaits *)
(* runs atomically on the asyncio event loop and is one action here.       *)
(***************************************************************************)
EXTENDS Integers, Sequences, FiniteSets, TLC

\* ------------------------------------------------------------------ bounds
NumProviders == 2
NumTasks == 2
MaxTransports == 3
MaxRequests == 2
MaxRouted == 4
MaxAttached == 2
MaxTime == 5
MaxPrinted == 1
MaxCodes == 1
MaxTicks == 3

Providers == 1..NumProviders
Tasks == 1..NumTasks
Handles == 1..MaxTransports

\* --------------------------------------------------------------- constants
\* models.py ServerStatus
ACTIVE == "active"
INACTIVE == "inactive"
\* members of ServerStatus that no statement of the code assigns
STARTING == "starting"
STOPPING == "stopping"
ERROR == "error"

\* models.py TransportType of each configured provider (the configuration is
\* an input: provider 1 is a subprocess, the others are HTTP-family services).
transport_type(p) ==
    CASE p = 1 -> "stdio"
      [] p = 2 -> "http"
      [] p = 3 -> "sse"
      [] OTHER -> "stdio"

HttpFamily == {"http", "sse", "streamable_http"}

\* The shapes a provider's reply line (or HTTP body) can take:
\*   "list"      {"jsonrpc":"2.0","id":..,"result":[ ...items... ]}
\*   "dict"      {"jsonrpc":"2.0","id":..,"result":{ ... }}
\*   "error"     {"jsonrpc":"2.0","id":..,"error":{...}}
\*   "nojsonrpc" valid JSON object without a "jsonrpc" member
\*   "garbage"   not valid JSON
Forms == {"list", "dict", "error", "nojsonrpc", "garbage"}
JsonForms == {"list", "dict", "error", "nojsonrpc"}
JsonRpcForms == {"list", "dict", "error"}

\* route_request: the methods answered by aggregation
ListMethods == {"tools/list", "resources/list", "prompts/list"}
\* route_request: method.startswith("tools/call")
IsToolCall(m) == m \in {"tools/call"}

VARIABLES
    active_servers,    \* MCPServerManager.active_servers: provider -> entry
    server_processes,  \* MCPServerManager.server_processes: provider -> handle
    http_clients,      \* MCPServerManager.http_clients: provider -> handle
    status,            \* MCPServer.status column, per provider
    transport,         \* every subprocess / HTTP client ever opened
    nextId,            \* number of request ids (uuid4) generated so far
    task,              \* the concurrently running coroutines
    prevStop,          \* provider -> the last supervisor call on it was a completed stop
    last,              \* the call that returned in the last step (observation)
    sessions,          \* MCPGateway.sessions: session id -> in-memory session
    route,             \* locals of the route_request coroutine of each task
    now,               \* datetime.utcnow(), in periods of the background loop that runs
    last_health_check, \* MCPServer.last_health_check column, per provider
    restart_count,     \* MCPServer.restart_count column, per provider
    monitor,           \* locals of the health_check_loop coroutine
    db_sessions,       \* the rows of the sessions table: session id -> row
    shutdown,          \* locals of the shutdown phase of lifespan
    authorization_codes \* auth.authorization_codes: code -> code data

vars == <<active_servers, server_processes, http_clients, status, transport,
          nextId, task, prevStop, last, sessions, route,
          now, last_health_check, restart_count, monitor, db_sessions, shutdown,
          authorization_codes>>
registry == <<active_servers, server_processes, http_clients>>
rvars == <<sessions, route>>
env == <<now, restart_count, monitor, db_sessions, shutdown, authorization_codes>>

\* ------------------------------------------------------------------ values
NoEntry == [type |-> "none", handle |-> 0]
NoLine == [id |-> 0, form |-> "none", method |-> "none", from |-> 0]
Unused == [prov |-> 0, kind |-> "none", state |-> "unused", inbox |-> <<>>, outbox |-> <<>>]
\* params of an inbound request: None, or a dict with or without a "name" and an
\* "id" (0: JSON null or no such key)
NoParams == [present |-> FALSE, name |-> "", id |-> 0]
\* a response as the caller of the gateway sees it: whether it has the "jsonrpc"
\* member, and its "id"
NoEnvelope == [jsonrpc |-> FALSE, id |-> 0]
Idle == [op |-> "idle", pc |-> "idle", p |-> 0, h |-> 0, rid |-> 0, method |-> "none",
         params |-> NoParams, pre |-> FALSE]
NoEvent == [task |-> 0, op |-> "none", p |-> 0, h |-> 0, ok |-> FALSE, why |-> "none",
            cause |-> "none", rid |-> 0, resp |-> NoLine, pre |-> FALSE, changed |-> FALSE,
            method |-> "none", params |-> NoParams, conn |-> <<>>, result |-> <<>>, log |-> <<>>,
            sid |-> "", request_id |-> 0, envelope |-> NoEnvelope,
            code |-> 0, client_id |-> "", redirect_uri |-> ""]

\* session identifiers (uuid4 strings in the code)
SessionIds == {"s1", "s2", "s3"}
NoSession == [present |-> FALSE, connected_servers |-> <<>>]
\* a row of the sessions table (none: the table has no row with this session_id)
NoRow == [exists |-> FALSE, is_active |-> FALSE, last_activity |-> 0]
\* last_health_check of a provider whose status was never written: NULL
Never == 0
\* health_check_loop between two ticks: asleep, nothing left to check
Asleep == [pc |-> "sleep", snapshot |-> <<>>, queue |-> <<>>, checked |-> <<>>]
\* OAuth authorization codes (secrets.token_urlsafe strings in the code), the
\* clients that ask for them and the redirect URIs they give
Codes == 1..MaxCodes
ClientIds == {"c1", "c2"}
RedirectUris == {"u1", "u2"}
\* authorization_codes has no entry for the code: it was never issued ("none"), or
\* its entry was deleted ("deleted")
NoCode == [state |-> "none", client_id |-> "", redirect_uri |-> "", created_at |-> 0,
           used |-> FALSE]
\* lifespan before its yield returns: the application is serving
Serving == [pc |-> "serving", queue |-> <<>>]
NoOutcome == [ok |-> FALSE, why |-> "none", cause |-> "none", resp |-> NoLine]
\* the method and params a proxy_request was called with
NoRequest == [method |-> "none", params |-> NoParams]
NoRoute == [sid |-> "", method |-> "none", params |-> NoParams, conn |-> <<>>, i |-> 0,
            phase |-> "none", results |-> <<>>, log |-> <<>>, out |-> NoOutcome, rid |-> 0,
            sent |-> NoRequest, request_id |-> 0]

Event(t, op, p, h, ok, why) ==
    [NoEvent EXCEPT !.task = t, !.op = op, !.p = p, !.h = h, !.ok = ok, !.why = why]

\* number of transports opened so far; the next one gets handle opened + 1
opened == Cardinality({h \in Handles : transport[h].state # "unused"})

IsActive(p) == active_servers[p].type # "none"

\* no other coroutine is in the middle of a call on provider p
Quiet(t, p) == \A u \in Tasks \ {t} : task[u].p # p

Init ==
    /\ active_servers = [p \in Providers |-> NoEntry]
    /\ server_processes = [p \in Providers |-> 0]
    /\ http_clients = [p \in Providers |-> 0]
    /\ status = [p \in Providers |-> INACTIVE]
    /\ transport = [h \in Handles |-> Unused]
    /\ nextId = 0
    /\ task = [t \in Tasks |-> Idle]
    /\ prevStop = [p \in Providers |-> FALSE]
    /\ last = NoEvent
    /\ sessions = [s \in SessionIds |-> NoSession]
    /\ route = [t \in Tasks |-> NoRoute]
    /\ now = 1
    /\ last_health_check = [p \in Providers |-> Never]
    /\ restart_count = [p \in Providers |-> 0]
    /\ monitor = Asleep
    /\ db_sessions = [s \in SessionIds |-> NoRow]
    /\ shutdown = Serving
    /\ authorization_codes = [c \in Codes |-> NoCode]

\* ---------------------------------------------------------------- start_server
\* _update_server_status: the row of the provider exists, so its status is set
update_server_status(st, p, s) == [st EXCEPT ![p] = s]
\* the time of the check is not written
health_check_stamp_keep(lhc, p) == lhc

\* _update_server_status: server.last_health_check = datetime.utcnow()
health_check_stamp(lhc, p) == [lhc EXCEPT ![p] = now]

\* _test_stdio_connection, after the ping was written: the line read from the
\* provider's stdout decides. json.loads raises on a line that is not JSON (and on
\* the empty line of a closed pipe); otherwise the reply passes iff it has "jsonrpc".
test_stdio_reply(line) == line.form \in JsonRpcForms

\* start_server -> _start_stdio_server: create_subprocess_exec raises (the command
\* does not exist, no process can be made): the inner except returns False.
StartSpawnFails(t, p) ==
    /\ task[t].op = "idle"
    /\ transport_type(p) = "stdio"
    /\ last' = [Event(t, "start", p, 0, FALSE, "spawn") EXCEPT !.pre = IsActive(p)]
    /\ prevStop' = [prevStop EXCEPT ![p] = FALSE]
    /\ UNCHANGED <<registry, status, last_health_check, transport, nextId, task, rvars, env>>

\* _start_stdio_server when the subprocess has exited before the ping is written:
\* it is stored in server_processes, stdin.write / drain raises, the test returns
\* False, and process.kill() on the process that is gone raises into the outer
\* except, which returns False
StartSpawnGone(t, p) ==
    /\ task[t].op = "idle"
    /\ transport_type(p) = "stdio"
    /\ opened < MaxTransports
    /\ LET h == opened + 1 IN
        /\ transport' = [transport EXCEPT ![h] =
               [prov |-> p, kind |-> "stdio", state |-> "exited", inbox |-> <<>>, outbox |-> <<>>]]
        /\ server_processes' = [server_processes EXCEPT ![p] = h]
        /\ last' = [Event(t, "start", p, h, FALSE, "closed") EXCEPT !.pre = IsActive(p)]
    /\ prevStop' = [prevStop EXCEPT ![p] = FALSE]
    /\ UNCHANGED <<active_servers, http_clients, status, last_health_check, nextId, task,
                   rvars, env>>

\* _start_stdio_server up to the handshake read: the subprocess exists, it is
\* stored in server_processes, and the ping (id 1, here 0) is written to its stdin.
StartSpawn(t, p) ==
    /\ task[t].op = "idle"
    /\ transport_type(p) = "stdio"
    /\ opened < MaxTransports
    /\ LET h == opened + 1 IN
        /\ transport' = [transport EXCEPT ![h] =
               [prov |-> p, kind |-> "stdio", state |-> "live",
                inbox |-> <<[id |-> 0, method |-> "ping", params |-> NoParams]>>, outbox |-> <<>>]]
        /\ server_processes' = [server_processes EXCEPT ![p] = h]
        /\ task' = [task EXCEPT ![t] = [Idle EXCEPT !.op = "start", !.pc = "handshake",
                                                     !.p = p, !.h = h, !.pre = IsActive(p)]]
    /\ prevStop' = [prevStop EXCEPT ![p] = FALSE]
    /\ last' = NoEvent
    /\ UNCHANGED <<active_servers, http_clients, status, last_health_check, nextId, rvars, env>>

\* _start_stdio_server after _test_stdio_connection returned True
StartStdioOk(t, tr, line) ==
    LET p == task[t].p
        h == task[t].h
    IN  /\ active_servers' = [active_servers EXCEPT ![p] = [type |-> "stdio", handle |-> h]]
        /\ status' = update_server_status(status, p, ACTIVE)
        /\ last_health_check' = health_check_stamp(last_health_check, p)
        /\ transport' = tr
        /\ task' = [task EXCEPT ![t] = Idle]
        /\ last' = [Event(t, "start", p, h, TRUE, "ok") EXCEPT
                        !.pre = task[t].pre, !.changed = (active_servers[p].handle # h),
                        !.resp = line]
        /\ UNCHANGED <<server_processes, http_clients, nextId, prevStop, rvars, env>>

\* _start_stdio_server after _test_stdio_connection returned False:
\* process.kill(); await process.wait(); return False
StartStdioFail(t, tr, why) ==
    LET p == task[t].p
        h == task[t].h
    IN  /\ transport' = [tr EXCEPT ![h].state = "dead"]
        /\ task' = [task EXCEPT ![t] = Idle]
        /\ last' = [Event(t, "start", p, h, FALSE, why) EXCEPT !.pre = task[t].pre]
        /\ UNCHANGED <<registry, status, last_health_check, nextId, prevStop, rvars, env>>

\* the handshake read returns a line
StartHandshakeLine(t) ==
    /\ task[t].pc = "handshake"
    /\ LET h == task[t].h
           line == Head(transport[h].outbox)
           tr == [transport EXCEPT ![h].outbox = Tail(@)]
       IN  /\ transport[h].outbox # <<>>
           /\ IF test_stdio_reply(line)
                 THEN StartStdioOk(t, tr, line)
                 ELSE StartStdioFail(t, tr, IF line.form = "garbage" THEN "malformed" ELSE "nojsonrpc")

\* the handshake read times out after 5 s (asyncio.TimeoutError)
StartHandshakeTimeout(t) ==
    /\ task[t].pc = "handshake"
    /\ transport[task[t].h].outbox = <<>>
    /\ StartStdioFail(t, transport, "timeout")

\* the subprocess exited without answering: readline returns b"", json.loads raises
StartHandshakeEof(t) ==
    /\ task[t].pc = "handshake"
    /\ transport[task[t].h].outbox = <<>>
    /\ transport[task[t].h].state = "exited"
    /\ StartStdioFail(t, transport, "eof")

\* start_server -> _start_http_server up to the probe: the client object exists
StartHttpOpen(t, p) ==
    /\ task[t].op = "idle"
    /\ transport_type(p) \in HttpFamily
    /\ opened < MaxTransports
    /\ LET h == opened + 1 IN
        /\ transport' = [transport EXCEPT ![h] =
               [Unused EXCEPT !.prov = p, !.kind = "http", !.state = "live"]]
        /\ task' = [task EXCEPT ![t] = [Idle EXCEPT !.op = "start", !.pc = "probe",
                                                     !.p = p, !.h = h, !.pre = IsActive(p)]]
    /\ prevStop' = [prevStop EXCEPT ![p] = FALSE]
    /\ last' = NoEvent
    /\ UNCHANGED <<registry, status, last_health_check, nextId, rvars, env>>

\* _test_http_connection: the probe answered 200/201/202 (ok) or not, or raised
ProbeResults == {"ok", "badstatus", "neterror"}

\* _start_http_server after the probe
StartHttpProbe(t, res) ==
    /\ task[t].pc = "probe"
    /\ LET p == task[t].p
           h == task[t].h
       IN  IF res = "ok"
           THEN /\ http_clients' = [http_clients EXCEPT ![p] = h]
                /\ active_servers' = [active_servers EXCEPT ![p] = [type |-> "http", handle |-> h]]
                /\ status' = update_server_status(status, p, ACTIVE)
                /\ last_health_check' = health_check_stamp(last_health_check, p)
                /\ last' = [Event(t, "start", p, h, TRUE, "ok") EXCEPT
                                !.pre = task[t].pre, !.changed = (active_servers[p].handle # h)]
                /\ UNCHANGED <<server_processes, transport>>
           ELSE /\ transport' = [transport EXCEPT ![h].state = "closed"]
                /\ last' = [Event(t, "start", p, h, FALSE, res) EXCEPT !.pre = task[t].pre]
                /\ UNCHANGED <<registry, status, last_health_check>>
    /\ task' = [task EXCEPT ![t] = Idle]
    /\ UNCHANGED <<nextId, prevStop, rvars, env>>

\* ----------------------------------------------------------------- stop_server
\* stop_server, "Clean up": the three pops by provider id, then INACTIVE
StopCleanUp(t, p, h, tr) ==
    /\ active_servers' = [active_servers EXCEPT ![p] = NoEntry]
    /\ server_processes' = [server_processes EXCEPT ![p] = 0]
    /\ http_clients' = [http_clients EXCEPT ![p] = 0]
    /\ status' = update_server_status(status, p, INACTIVE)
    /\ last_health_check' = health_check_stamp(last_health_check, p)
    /\ transport' = tr
    /\ task' = [task EXCEPT ![t] = Idle]
    /\ prevStop' = [prevStop EXCEPT ![p] = Quiet(t, p)]
    /\ last' = [Event(t, "stop", p, h, TRUE, "ok") EXCEPT !.pre = task[t].pre, !.changed = TRUE]
    /\ UNCHANGED <<nextId, rvars, env>>

\* stop_server when it raises: the except logs and returns False
stop_raised(t, p, h, pre) ==
    /\ task' = [task EXCEPT ![t] = Idle]
    /\ prevStop' = [prevStop EXCEPT ![p] = Quiet(t, p)]
    /\ last' = [Event(t, "stop", p, h, FALSE, "close_raised") EXCEPT !.pre = pre]
    /\ UNCHANGED <<registry, status, last_health_check, transport, nextId, rvars>>

StopRaised(t, p, h, pre) ==
    /\ stop_raised(t, p, h, pre)
    /\ UNCHANGED env

\* stop_server up to its first await
stop_server(t, p) ==
    /\ task[t].op = "idle"
    /\ LET e == active_servers[p]
           pre == prevStop[p] /\ Quiet(t, p)
       IN  CASE e.type = "none" ->
                  \* not in active_servers: return True
                  /\ last' = [Event(t, "stop", p, 0, TRUE, "absent") EXCEPT !.pre = pre]
                  /\ prevStop' = [prevStop EXCEPT ![p] = Quiet(t, p)]
                  /\ UNCHANGED <<registry, status, last_health_check, transport, nextId, task, rvars>>
             [] e.type = "stdio" /\ transport[e.handle].state # "live" ->
                  \* process.terminate() on a process that is gone: ProcessLookupError
                  stop_raised(t, p, e.handle, pre)
             [] e.type = "stdio" /\ transport[e.handle].state = "live" ->
                  \* process.terminate(); await wait_for(process.wait(), 5.0)
                  /\ task' = [task EXCEPT ![t] = [Idle EXCEPT !.op = "stop", !.pc = "stop_wait",
                                                 !.p = p, !.h = e.handle, !.pre = pre]]
                  /\ last' = NoEvent
                  /\ UNCHANGED <<registry, status, last_health_check, transport, nextId, prevStop, rvars>>
             [] e.type = "http" ->
                  \* await client.aclose()
                  /\ task' = [task EXCEPT ![t] = [Idle EXCEPT !.op = "stop", !.pc = "stop_close",
                                                 !.p = p, !.h = e.handle, !.pre = pre]]
                  /\ last' = NoEvent
                  /\ UNCHANGED <<registry, status, last_health_check, transport, nextId, prevStop, rvars>>

\* an API handler calls stop_server(p)
StopBegin(t, p) ==
    /\ stop_server(t, p)
    /\ UNCHANGED env

\* the subprocess is gone (it obeyed SIGTERM, or was killed after the 5 s grace)
StopWait(t) ==
    /\ task[t].pc = "stop_wait"
    /\ StopCleanUp(t, task[t].p, task[t].h, [transport EXCEPT ![task[t].h].state = "dead"])

\* client.aclose() returned
StopClose(t) ==
    /\ task[t].pc = "stop_close"
    /\ StopCleanUp(t, task[t].p, task[t].h, [transport EXCEPT ![task[t].h].state = "closed"])

\* client.aclose() raised
StopCloseRaises(t) ==
    /\ task[t].pc = "stop_close"
    /\ StopRaised(t, task[t].p, task[t].h, task[t].pre)

\* --------------------------------------------------------------- proxy_request
\* what proxy_request hands back: a response (ok) or an HTTPException (why)
Response(line) == [ok |-> TRUE, why |-> "response", cause |-> "none", resp |-> line]
NotFound == [ok |-> FALSE, why |-> "notfound", cause |-> "none", resp |-> NoLine]

\* the wrapper leaves out the re-raise: a failed send comes back as an empty reply
RequestFailedSwallowed(cause) == [ok |-> TRUE, why |-> "response", cause |-> cause, resp |-> NoLine]

\* proxy_request, "except Exception as e": every exception of the transport's send
\* is re-raised as HTTPException(500, "Server request failed: ...")
RequestFailed(cause) == [ok |-> FALSE, why |-> "failed", cause |-> cause, resp |-> NoLine]

\* _proxy_stdio_request, json.loads(response_line.decode()): the parsed line is
\* returned as it is; a line that is not JSON raises
parse_line(line) ==
    IF line.form \in JsonForms THEN Response(line) ELSE RequestFailed("malformed")

\* _proxy_http_request: raise_for_status(), then response.json()
HttpResults == Forms \cup {"badstatus", "neterror"}
parse_http(res, h, rid, m) ==
    IF res \in JsonForms THEN Response([id |-> rid, form |-> res, method |-> m, from |-> h])
    ELSE RequestFailed(IF res = "garbage" THEN "malformed" ELSE res)

\* the error of the initialize exchange reaches the caller
caps_outcome_raises(out) ==
    [ok |-> out.ok,
     result |-> IF out.ok /\ out.resp.form \in {"list", "dict"} THEN <<out.resp>> ELSE <<>>]

\* get_server_capabilities: response.get("result", {}) of the reply, and {} from the
\* except when the exchange (or the .get) raised
caps_outcome(out) ==
    [ok |-> TRUE,
     result |-> IF out.ok /\ out.resp.form \in {"list", "dict"} THEN <<out.resp>> ELSE <<>>]

\* a proxy_request call: who called (op), for which provider, the transport it
\* found (h, 0 when the provider has no entry), the request id it generated and the
\* method and params it was given
Call(op, p, h, rid, m, params) ==
    [Idle EXCEPT !.op = op, !.p = p, !.h = h, !.rid = rid, !.method = m, !.params = params,
                 !.pre = (h # 0)]

\* the caller of proxy_request continues with its outcome, without an await:
\*   a direct caller gets it; health_check turns it into a status; route_request
\*   goes on with its loop (RouteResume)
ProxyReturn(t, c, out) ==
    CASE c.op = "proxy" ->
           /\ task' = [task EXCEPT ![t] = Idle]
           /\ last' = [Event(t, "proxy", c.p, c.h, out.ok, out.why) EXCEPT
                           !.rid = c.rid, !.resp = out.resp, !.pre = c.pre, !.cause = out.cause,
                           !.method = c.method]
           /\ UNCHANGED <<status, last_health_check, route>>
      [] c.op = "health" ->
           \* health_check: ACTIVE after a ping that returned, ERROR after one that raised
           /\ task' = [task EXCEPT ![t] = Idle]
           /\ status' = update_server_status(status, c.p, IF out.ok THEN ACTIVE ELSE ERROR)
           /\ last_health_check' = health_check_stamp(last_health_check, c.p)
           /\ last' = [Event(t, "health", c.p, c.h, out.ok, out.why) EXCEPT
                           !.rid = c.rid, !.resp = out.resp, !.pre = c.pre, !.cause = out.cause,
                           !.method = c.method]
           /\ UNCHANGED route
      [] c.op = "caps" ->
           /\ task' = [task EXCEPT ![t] = Idle]
           /\ last' = [Event(t, "caps", c.p, c.h, caps_outcome(out).ok, out.why) EXCEPT
                           !.rid = c.rid, !.resp = out.resp, !.pre = c.pre, !.cause = out.cause,
                           !.method = c.method, !.result = caps_outcome(out).result]
           /\ UNCHANGED <<status, last_health_check, route>>
      [] c.op = "route" ->
           /\ task' = [task EXCEPT ![t] = [Idle EXCEPT !.op = "route", !.pc = "resume"]]
           /\ route' = [route EXCEPT ![t].out = out, ![t].rid = c.rid,
                               ![t].sent = [method |-> c.method, params |-> c.params]]
           /\ last' = NoEvent
           /\ UNCHANGED <<status, last_health_check>>

\* proxy_request up to its first await, for caller op of coroutine t
ProxySend(t, op, p, m, params) ==
    LET e == active_servers[p]
        rid == nextId + 1
        MaxIds == IF op = "route" THEN MaxRouted ELSE MaxRequests
    IN  CASE e.type = "none" ->
               \* HTTPException(404), raised before the try
               /\ ProxyReturn(t, Call(op, p, 0, 0, m, params), NotFound)
               /\ UNCHANGED <<transport, nextId>>
          [] e.type = "stdio" /\ transport[e.handle].state # "live" ->
               \* stdin.write / drain on a closed pipe raises
               /\ nextId < MaxIds
               /\ ProxyReturn(t, Call(op, p, e.handle, rid, m, params), RequestFailed("closed"))
               /\ nextId' = rid
               /\ UNCHANGED transport
          [] e.type = "stdio" /\ transport[e.handle].state = "live" ->
               \* one line written to stdin, then await readline
               /\ nextId < MaxIds
               /\ transport' = [transport EXCEPT ![e.handle].inbox =
                                    Append(@, [id |-> rid, method |-> m, params |-> params])]
               /\ task' = [task EXCEPT ![t] = [Call(op, p, e.handle, rid, m, params) EXCEPT !.pc = "recv"]]
               /\ nextId' = rid
               /\ last' = NoEvent
               /\ UNCHANGED <<status, last_health_check, route>>
          [] e.type = "http" ->
               \* await client.post(...)
               /\ nextId < MaxIds
               /\ task' = [task EXCEPT ![t] = [Call(op, p, e.handle, rid, m, params) EXCEPT !.pc = "http_wait"]]
               /\ nextId' = rid
               /\ last' = NoEvent
               /\ UNCHANGED <<status, last_health_check, route, transport>>

\* a client calls proxy_request(p, m)
ProxyRequest(t, p, m) ==
    /\ task[t].op = "idle"
    /\ ProxySend(t, "proxy", p, m, NoParams)
    /\ UNCHANGED <<registry, prevStop, sessions, env>>

\* health_check(p): False at once when p is not in active_servers, else a ping
health_check(t, p) ==
    /\ task[t].op = "idle"
    /\ IF ~IsActive(p)
         THEN /\ last' = Event(t, "health", p, 0, FALSE, "notfound")
              /\ UNCHANGED <<status, last_health_check, transport, nextId, task, route>>
         ELSE ProxySend(t, "health", p, "ping", NoParams)
    /\ UNCHANGED <<registry, prevStop, sessions>>

\* the health endpoint of the API calls health_check(p)
HealthCheck(t, p) ==
    /\ health_check(t, p)
    /\ UNCHANGED env

\* get_server_capabilities(p): an initialize request with its two params
InitializeParams == [present |-> TRUE, name |-> "", id |-> 0]

GetServerCapabilities(t, p) ==
    /\ task[t].op = "idle"
    /\ ProxySend(t, "caps", p, "initialize", InitializeParams)
    /\ UNCHANGED <<registry, prevStop, sessions, env>>

\* _proxy_stdio_request: readline returns the next line of the provider's stdout,
\* whichever request it answers
RecvLine(t) ==
    /\ task[t].pc = "recv"
    /\ LET h == task[t].h IN
        /\ transport[h].outbox # <<>>
        /\ transport' = [transport EXCEPT ![h].outbox = Tail(@)]
        /\ ProxyReturn(t, task[t], parse_line(Head(transport[h].outbox)))
    /\ UNCHANGED <<registry, nextId, prevStop, sessions, env>>

\* StreamReader.readline while another coroutine is already waiting on the same
\* stream: RuntimeError
RecvBusy(t) ==
    /\ task[t].pc = "recv"
    /\ transport[task[t].h].outbox = <<>>
    /\ \E u \in Tasks \ {t} : task[u].pc = "recv" /\ task[u].h = task[t].h
    /\ ProxyReturn(t, task[t], RequestFailed("busy"))
    /\ UNCHANGED <<registry, transport, nextId, prevStop, sessions, env>>

\* wait_for(..., settings.server_timeout) expires: asyncio.TimeoutError
RecvTimeout(t) ==
    /\ task[t].pc = "recv"
    /\ transport[task[t].h].outbox = <<>>
    /\ ProxyReturn(t, task[t], RequestFailed("timeout"))
    /\ UNCHANGED <<registry, transport, nextId, prevStop, sessions, env>>

\* the pipe is closed: readline returns b"", json.loads raises
RecvEof(t) ==
    /\ task[t].pc = "recv"
    /\ transport[task[t].h].outbox = <<>>
    /\ transport[task[t].h].state # "live"
    /\ ProxyReturn(t, task[t], RequestFailed("eof"))
    /\ UNCHANGED <<registry, transport, nextId, prevStop, sessions, env>>

\* _proxy_http_request: the POST is answered (or fails); each exchange is its own
HttpReply(t, res) ==
    /\ task[t].pc = "http_wait"
    /\ ProxyReturn(t, task[t],
                   IF transport[task[t].h].state = "live"
                   THEN parse_http(res, task[t].h, task[t].rid, task[t].method)
                   ELSE RequestFailed("closed"))
    /\ UNCHANGED <<registry, transport, nextId, prevStop, sessions, env>>

\* --------------------------------------------------------------- route_request
\* what a provider's list reply holds: the capabilities it advertises (by name)
ToolsOf(p) ==
    CASE p = 1 -> <<"echo", "add">>
      [] p = 2 -> <<"echo">>
      [] OTHER -> <<"sub">>

\* the items of the "result" of a reply line: the list a provider returns for a
\* list method (every item a JSON object with a "name"); a "dict" result is one object
ItemsOf(resp) ==
    IF resp.form = "list" /\ resp.method \in ListMethods /\ resp.from # 0
    THEN [k \in 1..Len(ToolsOf(transport[resp.from].prov)) |->
              [name |-> ToolsOf(transport[resp.from].prov)[k], server_id |-> 0]]
    ELSE IF resp.form = "dict" THEN <<[name |-> "result", server_id |-> 0]>>
    ELSE <<>>

\* the tag is written with the wrong provider id
TagItemsFirst(items, server_id) ==
    [k \in 1..Len(items) |-> [items[k] EXCEPT !.server_id = 1]]

\* item["_server_id"] = server_id on every item
TagItems(items, server_id) ==
    [k \in 1..Len(items) |-> [items[k] EXCEPT !.server_id = server_id]]

\* _aggregate_from_servers, the body of the loop for one provider: a reply with a
\* "result" that is a list extends the results by its tagged items, one that is a
\* dict appends it tagged; a reply without "result" and a raised call add nothing
aggregate_extend(results, out, server_id) ==
    IF out.ok /\ out.resp.form \in {"list", "dict"}
    THEN results \o TagItems(ItemsOf(out.resp), server_id)
    ELSE results

\* a request without a name is given the name of a default tool
tool_name_default(params) == IF params.present /\ params.name # "" THEN params.name ELSE "echo"

\* _route_tool_call: params.get("name") if params else None
tool_name(params) == IF params.present THEN params.name ELSE ""

\* every provider is taken to have the tool
has_tool_any(out, name) == out.ok

\* _route_tool_call, "for tool in tools: if tool.get('name') == tool_name": tools is
\* the "result" of the reply, [] when it has none; iterating a dict result raises
\* (its keys are strings), which the loop's except turns into "next provider"
has_tool(out, name) ==
    /\ out.ok
    /\ out.resp.form = "list"
    /\ \E k \in 1..Len(ItemsOf(out.resp)) : ItemsOf(out.resp)[k].name = name

\* the provider the loop is at
server_at(conn, i) == conn[i]

\* the loop passes over the provider that comes next
next_index_skip(i) == i + 2

\* "for server_id in connected_servers": on to the provider attached next
next_index(i) == i + 1

\* the provider attached last is taken as the primary
primary_server_last(conn) == conn[Len(conn)]

\* _route_to_primary_server: primary_server_id = connected_servers[0]
primary_server_id(conn) == conn[1]

\* every session id is taken as known
session_known_any(ss, sid) == TRUE

\* route_request: session_id in self.sessions
session_known(ss, sid) == ss[sid].present

\* handle_mcp_request, "except Exception": the error envelope carries
\* request_data.get("id")
error_response(id) == [jsonrpc |-> TRUE, id |-> id]

\* _aggregate_from_servers, the envelope around the merged list:
\* "id": params.get("id") if params else None
aggregate_response(params) == [jsonrpc |-> TRUE, id |-> IF params.present THEN params.id ELSE 0]

\* _route_tool_call and _route_to_primary_server return what proxy_request
\* returned, the provider's reply as parsed: its "id" is the one proxy_request
\* generated, and it has a "jsonrpc" member when the provider wrote one
forwarded_response(resp) == [jsonrpc |-> resp.form # "nojsonrpc", id |-> resp.id]

\* what handle_mcp_request answers with: route_request's return value as it is, or
\* the error envelope when route_request raised
http_response(ok, why, resp, params, id) ==
    IF ~ok THEN error_response(id)
    ELSE IF why = "aggregate" THEN aggregate_response(params)
    ELSE forwarded_response(resp)

\* the strategy is given an empty list whatever the session holds
connected_servers_none(ss, sid) == <<>>

\* session = self.sessions[session_id]; session.get("connected_servers", [])
connected_servers(ss, sid) == ss[sid].connected_servers

\* route_request returns (or raises) to its caller
RouteReturn(t, ok, why, resp, result, log) ==
    /\ task' = [task EXCEPT ![t] = Idle]
    /\ route' = [route EXCEPT ![t] = NoRoute]
    /\ last' = [Event(t, "route", 0, 0, ok, why) EXCEPT
                    !.resp = resp, !.result = result, !.log = log,
                    !.method = route[t].method, !.params = route[t].params,
                    !.conn = route[t].conn, !.sid = route[t].sid,
                    !.request_id = route[t].request_id,
                    !.envelope = http_response(ok, why, resp, route[t].params,
                                               route[t].request_id)]

\* route_request up to the first proxy_request: the session lookup and the choice
\* of the strategy (with the checks _route_tool_call and _route_to_primary_server
\* make before their first call); id is the "id" of the request, which stays in the
\* frame of handle_mcp_request while it awaits route_request
RouteRequest(t, sid, m, params, id) ==
    /\ task[t].op = "idle"
    /\ LET conn == connected_servers(sessions, sid)
           begin(phase) ==
               /\ task' = [task EXCEPT ![t] = [Idle EXCEPT !.op = "route", !.pc = "next"]]
               /\ route' = [route EXCEPT ![t] = [NoRoute EXCEPT !.sid = sid, !.method = m,
                               !.params = params, !.conn = conn, !.i = 1, !.phase = phase,
                               !.request_id = id]]
               /\ last' = NoEvent
           raise(why) ==
               /\ last' = [Event(t, "route", 0, 0, FALSE, why) EXCEPT
                               !.method = m, !.params = params, !.conn = conn, !.sid = sid,
                               !.request_id = id, !.envelope = error_response(id)]
               /\ UNCHANGED <<task, route>>
       IN  CASE ~session_known(sessions, sid) -> raise("nosession")
             [] session_known(sessions, sid) /\ m \in ListMethods -> begin("aggregate")
             [] session_known(sessions, sid) /\ m \notin ListMethods /\ IsToolCall(m) ->
                  IF tool_name(params) = "" THEN raise("missingtarget") ELSE begin("list")
             [] OTHER ->
                  IF conn = <<>> THEN raise("noproviders") ELSE begin("primary")
    /\ UNCHANGED <<registry, status, last_health_check, transport, nextId, prevStop, sessions, env>>

\* the next proxy_request of the strategy, or its end when the loop is over
RouteCall(t) ==
    /\ task[t].op = "route"
    /\ task[t].pc = "next"
    /\ LET r == route[t] IN
       CASE r.phase = "aggregate" /\ r.i > Len(r.conn) ->
              \* the JSON-RPC envelope around the merged list
              /\ RouteReturn(t, TRUE, "aggregate", NoLine, r.results, r.log)
              /\ UNCHANGED <<status, last_health_check, transport, nextId>>
         [] r.phase = "aggregate" /\ r.i <= Len(r.conn) ->
              /\ ProxySend(t, "route", server_at(r.conn, r.i), r.method, r.params)
              /\ UNCHANGED sessions
         [] r.phase = "list" /\ r.i > Len(r.conn) ->
              \* HTTPException(404, "Tool ... not found")
              /\ RouteReturn(t, FALSE, "toolnotfound", NoLine, <<>>, r.log)
              /\ UNCHANGED <<status, last_health_check, transport, nextId>>
         [] r.phase = "list" /\ r.i <= Len(r.conn) ->
              /\ ProxySend(t, "route", server_at(r.conn, r.i), "tools/list", NoParams)
              /\ UNCHANGED sessions
         [] r.phase = "call" ->
              /\ ProxySend(t, "route", server_at(r.conn, r.i), r.method, r.params)
              /\ UNCHANGED sessions
         [] r.phase = "primary" ->
              /\ ProxySend(t, "route", primary_server_id(r.conn), r.method, r.params)
              /\ UNCHANGED sessions
    /\ UNCHANGED <<registry, prevStop, sessions, env>>

\* the strategy goes on with the outcome of the proxy_request it awaited
RouteResume(t) ==
    /\ task[t].op = "route"
    /\ task[t].pc = "resume"
    /\ LET r == route[t]
           p == IF r.phase = "primary" THEN primary_server_id(r.conn) ELSE server_at(r.conn, r.i)
           log == Append(r.log, [p |-> p, phase |-> r.phase, method |-> r.sent.method,
                                    params |-> r.sent.params, out |-> r.out])
           goon(i, phase, results) ==
               /\ task' = [task EXCEPT ![t].pc = "next"]
               /\ route' = [route EXCEPT ![t].i = i, ![t].phase = phase, ![t].log = log,
                               ![t].results = results, ![t].out = NoOutcome, ![t].rid = 0,
                               ![t].sent = NoRequest]
               /\ last' = NoEvent
       IN  CASE r.phase = "aggregate" ->
                  \* a provider that raised is logged and skipped
                  goon(next_index(r.i), "aggregate", aggregate_extend(r.results, r.out, p))
             [] r.phase = "list" ->
                  IF has_tool(r.out, tool_name(r.params))
                  THEN goon(r.i, "call", r.results)
                  ELSE goon(next_index(r.i), "list", r.results)
             [] r.phase = "call" ->
                  \* "return await proxy_request(...)" sits inside the loop's try: when
                  \* it raises, the except logs it and the loop goes to the next provider
                  IF r.out.ok
                  THEN RouteReturn(t, TRUE, "response", r.out.resp, <<>>, log)
                  ELSE goon(next_index(r.i), "list", r.results)
             [] r.phase = "primary" ->
                  RouteReturn(t, r.out.ok, r.out.why, r.out.resp, <<>>, log)
    /\ UNCHANGED <<registry, status, last_health_check, transport, nextId, prevStop, sessions, env>>

\* ----------------------------------------------------------- health_check_loop
\* MCPServer.auto_restart, max_restarts (the defaults of the columns)
auto_restart(p) == TRUE
max_restarts(p) == 3

\* MCPServer.health_check_interval: 60 s by default; the clock counts the sleeps of
\* the loop here (30 s each)
health_check_interval(p) == 2

\* the query of a tick: the providers whose status is ACTIVE, from id k on
RECURSIVE active_servers_query(_)
active_servers_query(k) ==
    IF k > NumProviders THEN <<>>
    ELSE (IF status[k] = ACTIVE THEN <<k>> ELSE <<>>) \o active_servers_query(k + 1)

\* "if not server.last_health_check or utcnow() - server.last_health_check >
\*  timedelta(seconds=server.health_check_interval)"
is_due(lhc, t, interval) == lhc = Never \/ t - lhc > interval

\* the loop is left after the first check
rest_none(queue) == <<>>

\* "for server in active_servers": the providers still to come in this tick
rest(queue) == Tail(queue)

\* asyncio.sleep(30) is over; the next tick begins with the query
MonitorTick ==
    /\ monitor.pc = "sleep"
    /\ now < MaxTime
    /\ now' = now + 1
    /\ monitor' = [pc |-> "loop", snapshot |-> active_servers_query(1),
                   queue |-> active_servers_query(1), checked |-> <<>>]
    /\ last' = NoEvent
    /\ UNCHANGED <<registry, status, last_health_check, transport, nextId, task, prevStop,
                   rvars, restart_count, db_sessions, shutdown,
                   authorization_codes>>

\* the loop is at a provider whose check is due: await health_check(db, server.id)
MonitorCheck(t) ==
    /\ monitor.pc = "loop"
    /\ monitor.queue # <<>>
    /\ LET p == Head(monitor.queue) IN
        /\ is_due(last_health_check[p], now, health_check_interval(p))
        /\ health_check(t, p)
        /\ monitor' = [monitor EXCEPT !.queue = rest(@), !.checked = Append(@, p)]
    /\ UNCHANGED <<now, restart_count, db_sessions, shutdown,
                   authorization_codes>>

\* the loop is at a provider whose check is not due yet: on to the next
MonitorSkip(t) ==
    /\ monitor.pc = "loop"
    /\ monitor.queue # <<>>
    /\ task[t].op = "idle"
    /\ ~is_due(last_health_check[Head(monitor.queue)], now,
               health_check_interval(Head(monitor.queue)))
    /\ monitor' = [monitor EXCEPT !.queue = rest(@)]
    /\ last' = NoEvent
    /\ UNCHANGED <<registry, status, last_health_check, transport, nextId, task, prevStop,
                   rvars, now, restart_count, db_sessions, shutdown,
                   authorization_codes>>

\* the loop is over: await asyncio.sleep(30)
MonitorSleep(t) ==
    /\ monitor.pc = "loop"
    /\ monitor.queue = <<>>
    /\ task[t].op = "idle"
    /\ monitor' = [monitor EXCEPT !.pc = "sleep"]
    /\ last' = Event(t, "tick", 0, 0, TRUE, "ok")
    /\ UNCHANGED <<registry, status, last_health_check, transport, nextId, task, prevStop,
                   rvars, now, restart_count, db_sessions, shutdown,
                   authorization_codes>>

\* -------------------------------------------------------------------- sessions
\* the index is replaced by one that holds the new session only
store_session_only(ss, sid) ==
    [s \in SessionIds |->
        IF s = sid THEN [present |-> TRUE, connected_servers |-> <<>>] ELSE NoSession]

\* create_session: self.sessions[session_id] = {..., "connected_servers": [], ...}
store_session(ss, sid) == [ss EXCEPT ![sid] = [present |-> TRUE, connected_servers |-> <<>>]]

\* create_session: a new row in the sessions table and a new in-memory session,
\* both under a fresh uuid4, with no provider attached
CreateSession(sid) ==
    /\ ~db_sessions[sid].exists
    /\ ~sessions[sid].present
    /\ db_sessions' = [db_sessions EXCEPT ![sid] =
           [exists |-> TRUE, is_active |-> TRUE, last_activity |-> now]]
    /\ sessions' = store_session(sessions, sid)
    /\ last' = [Event(0, "create", 0, 0, TRUE, "ok") EXCEPT !.sid = sid]
    /\ UNCHANGED <<registry, status, last_health_check, transport, nextId, task, prevStop,
                   route, now, restart_count, monitor, shutdown,
                   authorization_codes>>

\* cleanup_sessions_loop: timedelta(hours=1); the clock counts hours here
IdleThreshold == 1

\* cutoff_time = datetime.utcnow() - timedelta(hours=1)
cutoff_time(t) == t - IdleThreshold

\* the query of the sweep: last_activity < cutoff_time, is_active == True
inactive_sessions(rows, t) ==
    {s \in SessionIds : rows[s].exists /\ rows[s].is_active
                          /\ rows[s].last_activity < cutoff_time(t)}

\* the sweep leaves the in-memory index as it is
evict_none(ss, due) == ss

\* gateway.sessions.pop(session.session_id, None) for every session of the query
evict(ss, due) == [s \in SessionIds |-> IF s \in due THEN NoSession ELSE ss[s]]

\* the rows of the query are left active
deactivate_none(rows, due) == rows

\* session.is_active = False for every session of the query, then db.commit()
deactivate(rows, due) ==
    [s \in SessionIds |-> IF s \in due THEN [rows[s] EXCEPT !.is_active = FALSE] ELSE rows[s]]

\* cleanup_sessions_loop: asyncio.sleep(3600) is over and the body of the loop runs
\* once more, an hour later: the sessions of the query are marked inactive and
\* popped from the in-memory index
CleanupSessions ==
    /\ now < MaxTime
    /\ now' = now + 1
    /\ LET due == inactive_sessions(db_sessions, now') IN
        /\ db_sessions' = deactivate(db_sessions, due)
        /\ sessions' = evict(sessions, due)
    /\ last' = Event(0, "sweep", 0, 0, TRUE, "ok")
    /\ UNCHANGED <<registry, status, last_health_check, transport, nextId, task, prevStop,
                   route, restart_count, monitor, shutdown,
                   authorization_codes>>

\* ----------------------------------------------------------------------- oauth
\* verify_authorization_code, "if datetime.utcnow() - code_data['created_at'] >
\* timedelta(minutes=10)"; the clock counts periods of ten minutes here
CodeLifetime == 1

\* create_authorization_code: a new entry under a fresh token, not used
CreateAuthorizationCode(code, client_id, redirect_uri) ==
    /\ authorization_codes[code].state = "none"
    /\ authorization_codes' = [authorization_codes EXCEPT ![code] =
           [state |-> "stored", client_id |-> client_id, redirect_uri |-> redirect_uri,
            created_at |-> now, used |-> FALSE]]
    /\ last' = [Event(0, "authorize", 0, 0, TRUE, "ok") EXCEPT
                    !.code = code, !.client_id = client_id, !.redirect_uri = redirect_uri]
    /\ UNCHANGED <<registry, status, last_health_check, transport, nextId, task, prevStop,
                   rvars, now, restart_count, monitor, db_sessions, shutdown>>

\* the code stays as it was issued
mark_used_not(code_data) == code_data

\* code_data["used"] = True
mark_used(code_data) == [code_data EXCEPT !.used = TRUE]

\* verify_authorization_code: the outcome, and authorization_codes as it leaves it
verify_authorization_code(codes, code, client_id, redirect_uri, t) ==
    LET code_data == codes[code] IN
    IF code_data.state # "stored" THEN [why |-> "unknown", codes |-> codes]
    ELSE IF code_data.used THEN [why |-> "used", codes |-> codes]
    ELSE IF t - code_data.created_at > CodeLifetime
         THEN [why |-> "expired", codes |-> [codes EXCEPT ![code] = [NoCode EXCEPT !.state = "deleted"]]]
    ELSE IF code_data.client_id # client_id \/ code_data.redirect_uri # redirect_uri
         THEN [why |-> "mismatch", codes |-> codes]
    ELSE [why |-> "ok", codes |-> [codes EXCEPT ![code] = mark_used(code_data)]]

\* oauth_token, grant_type "authorization_code": the code is verified; when it is
\* not valid the request fails with 400, else a session is created
\* (gateway.create_session, which would draw the id sid) and the tokens are
\* returned
OAuthToken(code, client_id, redirect_uri, sid) ==
    LET v == verify_authorization_code(authorization_codes, code, client_id, redirect_uri, now)
        ev(ok, id) == [Event(0, "token", 0, 0, ok, v.why) EXCEPT
                           !.code = code, !.client_id = client_id,
                           !.redirect_uri = redirect_uri, !.sid = id]
    IN  /\ authorization_codes' = v.codes
        /\ IF v.why = "ok"
             THEN /\ ~db_sessions[sid].exists
                  /\ ~sessions[sid].present
                  /\ db_sessions' = [db_sessions EXCEPT ![sid] =
                         [exists |-> TRUE, is_active |-> TRUE, last_activity |-> now]]
                  /\ sessions' = store_session(sessions, sid)
                  /\ last' = ev(TRUE, sid)
             ELSE /\ last' = ev(FALSE, "")
                  /\ UNCHANGED <<sessions, db_sessions>>
        /\ UNCHANGED <<registry, status, last_health_check, transport, nextId, task, prevStop,
                       route, now, restart_count, monitor, shutdown>>

\* ten more minutes have passed
Tick ==
    /\ now < MaxTicks
    /\ now' = now + 1
    /\ last' = NoEvent
    /\ UNCHANGED <<registry, status, last_health_check, transport, nextId, task, prevStop,
                   rvars, restart_count, monitor, db_sessions, shutdown, authorization_codes>>

\* -------------------------------------------------------------------- lifespan
\* the shutdown phase begins (the requests in progress have ended): the query of
\* the providers whose status is ACTIVE
ShutdownBegin ==
    /\ shutdown.pc = "serving"
    /\ \A t \in Tasks : task[t].op = "idle"
    /\ shutdown' = [pc |-> "loop", queue |-> active_servers_query(1)]
    /\ last' = NoEvent
    /\ UNCHANGED <<registry, status, last_health_check, transport, nextId, task, prevStop,
                   rvars, now, restart_count, monitor, db_sessions,
                   authorization_codes>>

\* "for server in active_servers: await server_manager.stop_server(db, server.id)"
ShutdownStop(t) ==
    /\ shutdown.pc = "loop"
    /\ shutdown.queue # <<>>
    /\ stop_server(t, Head(shutdown.queue))
    /\ shutdown' = [shutdown EXCEPT !.queue = rest(@)]
    /\ UNCHANGED <<now, restart_count, monitor, db_sessions,
                   authorization_codes>>

\* the loop is over: "shutdown complete"
ShutdownEnd(t) ==
    /\ shutdown.pc = "loop"
    /\ shutdown.queue = <<>>
    /\ task[t].op = "idle"
    /\ shutdown' = [shutdown EXCEPT !.pc = "done"]
    /\ last' = Event(t, "shutdown", 0, 0, TRUE, "ok")
    /\ UNCHANGED <<registry, status, last_health_check, transport, nextId, task, prevStop,
                   rvars, now, restart_count, monitor, db_sessions,
                   authorization_codes>>

\* ------------------------------------------------------------------ providers
\* a running subprocess answers the oldest request on its stdin with one line that
\* carries that request's id
ProviderRespond(h, form) ==
    /\ transport[h].kind = "stdio"
    /\ transport[h].state = "live"
    /\ transport[h].inbox # <<>>
    /\ LET rq == Head(transport[h].inbox) IN
        transport' = [transport EXCEPT ![h].inbox = Tail(@),
                         ![h].outbox = Append(@, [id |-> rq.id, form |-> form, method |-> rq.method,
                                                  from |-> h])]
    /\ last' = NoEvent
    /\ UNCHANGED <<registry, status, last_health_check, nextId, task, prevStop, rvars, env>>

\* a subprocess writes a line to its stdout that answers no request (what it
\* prints whatever it reads: the line of an "echo" command, a banner, a
\* notification)
ProviderPrint(h, form) ==
    /\ transport[h].kind = "stdio"
    /\ transport[h].state = "live"
    /\ Len(transport[h].outbox) < MaxPrinted
    /\ transport' = [transport EXCEPT ![h].outbox =
                         Append(@, [id |-> 0, form |-> form, method |-> "none", from |-> h])]
    /\ last' = NoEvent
    /\ UNCHANGED <<registry, status, last_health_check, nextId, task, prevStop, rvars, env>>

\* a running subprocess exits on its own
ProviderExit(h) ==
    /\ transport[h].kind = "stdio"
    /\ transport[h].state = "live"
    /\ transport' = [transport EXCEPT ![h].state = "exited"]
    /\ last' = NoEvent
    /\ UNCHANGED <<registry, status, last_health_check, nextId, task, prevStop, rvars, env>>

\* ------------------------------------------------------------ specifications
\* Provider lifecycle: start_server and stop_server calls of concurrent API
\* handlers, against subprocesses that answer the handshake, or not, and may exit.
Next ==
    \/ \E t \in Tasks, p \in Providers :
          \/ StartSpawnFails(t, p)
          \/ StartSpawn(t, p)
          \/ StartHttpOpen(t, p)
          \/ StopBegin(t, p)
    \/ \E t \in Tasks :
          \/ StartHandshakeLine(t)
          \/ StartHandshakeTimeout(t)
          \/ StartHandshakeEof(t)
          \/ \E res \in ProbeResults : StartHttpProbe(t, res)
          \/ StopWait(t)
          \/ StopClose(t)
          \/ StopCloseRaises(t)
    \/ \E h \in Handles :
          \/ \E form \in Forms : ProviderRespond(h, form)
          \/ ProviderExit(h)

Spec == Init /\ [][Next]_vars

\* Proxying: the providers of S (all of them, or none) were started, each once (the state start_server
\* leaves behind then, its handshake lines consumed, provider p on transport p);
\* concurrent proxy_request and health_check calls.
Started(S) ==
    /\ active_servers = [p \in Providers |->
           IF p \in S THEN [type |-> IF transport_type(p) = "stdio" THEN "stdio" ELSE "http",
                            handle |-> p]
           ELSE NoEntry]
    /\ server_processes = [p \in Providers |->
           IF p \in S /\ transport_type(p) = "stdio" THEN p ELSE 0]
    /\ http_clients = [p \in Providers |->
           IF p \in S /\ transport_type(p) # "stdio" THEN p ELSE 0]
    /\ status = [p \in Providers |-> IF p \in S THEN ACTIVE ELSE INACTIVE]
    /\ last_health_check = [p \in Providers |-> IF p \in S THEN now ELSE Never]
    /\ transport = [h \in Handles |->
           IF h \in S
           THEN [Unused EXCEPT !.prov = h, !.state = "live",
                     !.kind = IF transport_type(h) = "stdio" THEN "stdio" ELSE "http"]
           ELSE Unused]

\* the gateway at rest: no call in progress, no request made yet
AtRest ==
    /\ nextId = 0
    /\ task = [t \in Tasks |-> Idle]
    /\ prevStop = [p \in Providers |-> FALSE]
    /\ last = NoEvent
    /\ route = [t \in Tasks |-> NoRoute]
    /\ restart_count = [p \in Providers |-> 0]
    /\ monitor = Asleep
    /\ shutdown = Serving
    /\ authorization_codes = [c \in Codes |-> NoCode]

InitProxy ==
    /\ now = 1
    /\ \E S \in {Providers, {}} : Started(S)
    /\ AtRest
    /\ sessions = [s \in SessionIds |-> NoSession]
    /\ db_sessions = [s \in SessionIds |-> NoRow]

NextProxy ==
    \/ \E t \in Tasks, p \in Providers :
          \/ HealthCheck(t, p)
          \/ \E m \in {"tools/list"} : ProxyRequest(t, p, m)
    \/ \E t \in Tasks :
          \/ RecvLine(t)
          \/ RecvBusy(t)
          \/ RecvTimeout(t)
          \/ RecvEof(t)
          \/ \E res \in HttpResults : HttpReply(t, res)
    \/ \E h \in Handles :
          \/ \E form \in {"list", "garbage"} : ProviderRespond(h, form)
          \/ ProviderExit(h)

SpecProxy == InitProxy /\ [][NextProxy]_vars

\* Routing: one client session whose attached-provider list is an input, over
\* providers of which any subset was started; one route_request at a time.
\* (an ordered set: no provider twice)
AttachLists ==
    {c \in UNION {[1..n -> Providers] : n \in 0..MaxAttached} :
        \A i, j \in 1..Len(c) : c[i] = c[j] => i = j}
\* the "id" members of inbound requests; the ids proxy_request generates (uuid4)
\* are the numbers from 1 and never equal one of these
RequestIds == {101}
RouteMethods == {"tools/list", "resources/list", "tools/call", "ping"}
RouteParams ==
    {NoParams} \cup {[present |-> TRUE, name |-> n, id |-> 0] : n \in {"", "echo", "add"}}
              \cup {[present |-> TRUE, name |-> "", id |-> i] : i \in RequestIds}

\* the request routed is the first to reach the providers
FreshGateway == nextId = 0

ClientRequest(t, sid, m, params) ==
    FreshGateway /\ \E id \in RequestIds : RouteRequest(t, sid, m, params, id)

\* session "s1" was created at time at (create_session), and the providers of
\* conn are attached to it
Attached(conn, at) ==
    /\ sessions = [s \in SessionIds |->
           IF s = "s1" THEN [present |-> TRUE, connected_servers |-> conn] ELSE NoSession]
    /\ db_sessions = [s \in SessionIds |->
           IF s = "s1" THEN [exists |-> TRUE, is_active |-> TRUE, last_activity |-> at]
           ELSE NoRow]

InitRouter ==
    /\ now = 1
    /\ \E S \in SUBSET Providers : Started(S)
    /\ AtRest
    /\ \E conn \in AttachLists : Attached(conn, now)

NextRouter ==
    \/ \E sid \in SessionIds, m \in RouteMethods, params \in RouteParams :
          ClientRequest(1, sid, m, params)
    \/ RouteCall(1)
    \/ RouteResume(1)
    \/ RecvLine(1)
    \/ RecvTimeout(1)
    \/ RecvEof(1)
    \/ \E res \in HttpResults : HttpReply(1, res)
    \/ \E h \in Handles :
          \/ \E form \in Forms : ProviderRespond(h, form)
          \/ ProviderExit(h)

SpecRouter == InitRouter /\ [][NextRouter]_vars

\* One caller: proxy_request calls made one after the other, each awaited to its end
\* before the next, so that no two are ever on a transport together.
NextSerial ==
    \/ \E p \in Providers, m \in {"tools/list", "ping"} : ProxyRequest(1, p, m)
    \/ RecvLine(1)
    \/ RecvTimeout(1)
    \/ RecvEof(1)
    \/ \E res \in HttpResults : HttpReply(1, res)
    \/ \E h \in Handles :
          \/ \E form \in Forms : ProviderRespond(h, form)
          \/ ProviderExit(h)

SpecSerial == InitProxy /\ [][NextSerial]_vars

\* Stopping under load: stop_server calls of API handlers while proxy_request and
\* health_check calls are on the transports; the providers answer and do not exit on their own.
InitStop ==
    /\ now = 1
    /\ Started(Providers)
    /\ AtRest
    /\ sessions = [s \in SessionIds |-> NoSession]
    /\ db_sessions = [s \in SessionIds |-> NoRow]

NextStop ==
    \/ \E t \in Tasks, p \in Providers :
          \/ ProxyRequest(t, p, "tools/list")
          \/ HealthCheck(t, p)
          \/ StopBegin(t, p)
    \/ \E t \in Tasks :
          \/ RecvLine(t)
          \/ RecvBusy(t)
          \/ RecvTimeout(t)
          \/ RecvEof(t)
          \/ \E res \in {"list", "neterror"} : HttpReply(t, res)
          \/ StopWait(t)
          \/ StopClose(t)
          \/ StopCloseRaises(t)
    \/ \E h \in Handles : ProviderRespond(h, "list")

SpecStop == InitStop /\ [][NextStop]_vars

\* Shutdown: the health endpoint of the API is called while the application
\* serves; then the shutdown phase of lifespan runs, on a task of its own.
\* the health endpoint is called while the application serves
HealthEndpoint(t, p) ==
    /\ shutdown.pc = "serving"
    /\ HealthCheck(t, p)

InitShutdown ==
    /\ now = 1
    /\ \E S \in SUBSET Providers : Started(S)
    /\ AtRest
    /\ sessions = [s \in SessionIds |-> NoSession]
    /\ db_sessions = [s \in SessionIds |-> NoRow]

NextShutdown ==
    \/ \E p \in Providers : HealthEndpoint(1, p)
    \/ RecvLine(1)
    \/ RecvTimeout(1)
    \/ RecvEof(1)
    \/ \E res \in {"dict", "neterror"} : HttpReply(1, res)
    \/ \E h \in Handles :
          \/ \E form \in {"dict", "garbage"} : ProviderRespond(h, form)
          \/ ProviderExit(h)
    \/ ShutdownBegin
    \/ ShutdownStop(2)
    \/ ShutdownEnd(2)
    \/ StopWait(2)
    \/ StopClose(2)
    \/ StopCloseRaises(2)

SpecShutdown == InitShutdown /\ [][NextShutdown]_vars

\* Handshake: start_server calls, one at a time, against subprocesses that answer
\* the ping, print lines of their own, stay silent or exit.
NextHandshake ==
    \/ \E p \in Providers :
          \/ StartSpawnFails(1, p)
          \/ StartSpawn(1, p)
          \/ StartSpawnGone(1, p)
    \/ StartHandshakeLine(1)
    \/ StartHandshakeTimeout(1)
    \/ StartHandshakeEof(1)
    \/ \E h \in Handles :
          \/ \E form \in {"dict", "nojsonrpc", "garbage"} : ProviderRespond(h, form)
          \/ \E form \in {"dict", "garbage"} : ProviderPrint(h, form)
          \/ ProviderExit(h)

SpecHandshake == Init /\ [][NextHandshake]_vars

\* OAuth: the authorize and token endpoints, called in any order with any code,
\* client id and redirect URI, while time passes.
\* (the fresh tokens and session ids are drawn in one order: which of the unused
\* ones comes next makes no difference)
NextCode(code) == \A c \in Codes : c < code => authorization_codes[c].state # "none"
NextSessionId(sid) ==
    \A s \in SessionIds :
        <<s, sid>> \in {<<"s1", "s2">>, <<"s1", "s3">>, <<"s2", "s3">>} => db_sessions[s].exists

NextOAuth ==
    \/ \E code \in Codes, client_id \in ClientIds, redirect_uri \in RedirectUris :
          \/ NextCode(code) /\ CreateAuthorizationCode(code, client_id, redirect_uri)
          \/ \E sid \in SessionIds :
                NextSessionId(sid) /\ OAuthToken(code, client_id, redirect_uri, sid)
    \/ Tick

SpecOAuth == Init /\ [][NextOAuth]_vars

\* Capabilities: concurrent get_server_capabilities calls, over providers of which
\* any subset was started.
InitCapabilities ==
    /\ now = 1
    /\ \E S \in SUBSET Providers : Started(S)
    /\ AtRest
    /\ sessions = [s \in SessionIds |-> NoSession]
    /\ db_sessions = [s \in SessionIds |-> NoRow]

NextCapabilities ==
    \/ \E t \in Tasks, p \in Providers : GetServerCapabilities(t, p)
    \/ \E t \in Tasks :
          \/ RecvLine(t)
          \/ RecvBusy(t)
          \/ RecvTimeout(t)
          \/ RecvEof(t)
          \/ \E res \in HttpResults : HttpReply(t, res)
    \/ \E h \in Handles :
          \/ \E form \in Forms : ProviderRespond(h, form)
          \/ ProviderExit(h)

SpecCapabilities == InitCapabilities /\ [][NextCapabilities]_vars

\* Health monitoring: health_check_loop alone, over providers of which any subset
\* was started one period ago; the loop's coroutine is task 1.
InitMonitor ==
    /\ now = 1
    /\ \E S \in SUBSET Providers : Started(S)
    /\ AtRest
    /\ sessions = [s \in SessionIds |-> NoSession]
    /\ db_sessions = [s \in SessionIds |-> NoRow]

NextMonitor ==
    \/ MonitorTick
    \/ MonitorCheck(1)
    \/ MonitorSkip(1)
    \/ MonitorSleep(1)
    \/ RecvLine(1)
    \/ RecvTimeout(1)
    \/ RecvEof(1)
    \/ \E res \in {"dict", "neterror"} : HttpReply(1, res)
    \/ \E h \in Handles :
          \/ \E form \in {"dict", "error", "garbage"} : ProviderRespond(h, form)
          \/ ProviderExit(h)

SpecMonitor == InitMonitor /\ [][NextMonitor]_vars

\* Sessions: session "s1" with its attached providers, sessions created later, the
\* hourly sweep, and requests routed on known, unknown and evicted sessions.
InitSessions ==
    /\ now = 1
    /\ Started(Providers)
    /\ AtRest
    /\ \E conn \in AttachLists : Attached(conn, now)

NextSessions ==
    \/ \E sid \in SessionIds : CreateSession(sid)
    \/ CleanupSessions
    \/ \E sid \in SessionIds, m \in {"tools/list", "ping"} : ClientRequest(1, sid, m, NoParams)
    \/ RouteCall(1)
    \/ RouteResume(1)
    \/ RecvLine(1)
    \/ RecvTimeout(1)
    \/ \E res \in {"list", "neterror"} : HttpReply(1, res)
    \/ \E h \in Handles : ProviderRespond(h, "list")

SpecSessions == InitSessions /\ [][NextSessions]_vars

\* ===================================================================== claims
\* the transports of provider p that are alive: running subprocesses, open clients
LiveTransports(p) == {h \in Handles : transport[h].prov = p /\ transport[h].state = "live"}
AllIdle == \A t \in Tasks : task[t].op = "idle"

\* C1: on a stdio transport every caller of a concurrent send receives the
\* response whose id is the id of the request it sent, never another caller's.
C1_OwnResponse ==
    (last.op \in {"proxy", "health"} /\ last.ok /\ transport[last.h].kind = "stdio")
        => last.resp.id = last.rid

\* C2: whenever no start or stop call is in progress, a provider has at most one
\* live transport, and every live transport is the one the registry records for
\* its provider.
C2_AtMostOneLiveTransport ==
    AllIdle => \A p \in Providers :
                 /\ Cardinality(LiveTransports(p)) <= 1
                 /\ \A h \in LiveTransports(p) : active_servers[p].handle = h

\* C3: a start_server call that fails to open the transport returns failure and
\* leaves the provider's status ERROR.
C3_FailedStartIsError ==
    (last.op = "start" /\ ~last.ok) => status[last.p] = ERROR

\* C4: after a failed start_server call the supervisor retains no handle of the
\* transport that call opened, in active_servers, server_processes or http_clients.
C4_FailedStartRetainsNothing ==
    (last.op = "start" /\ ~last.ok /\ last.h # 0) =>
        /\ active_servers[last.p].handle # last.h
        /\ server_processes[last.p] # last.h
        /\ http_clients[last.p] # last.h

\* C5: a stop_server call that directly follows a completed stop_server call on the
\* same provider returns success and changes neither the registry nor the status.
C5_SecondStopIsNoOp ==
    (last.op = "stop" /\ last.pre) => (last.ok /\ ~last.changed)

\* C6: when stop_server returns for a provider that had a registry entry, the
\* entry is gone and the status is INACTIVE, whether or not closing raised.
C6_StopAlwaysRemoves ==
    (last.op = "stop" /\ last.h # 0) =>
        (~IsActive(last.p) /\ status[last.p] = INACTIVE)

\* C7: start_server on a provider that is already active returns success, opens
\* no second transport and leaves the registry entry as it was.
C7_StartWhenActiveIsNoOp ==
    (last.op = "start" /\ last.pre) => (last.ok /\ last.h = 0 /\ ~last.changed)

\* C8: proxy_request on a provider without a registry entry fails with not-found
\* and touches no transport; with an entry, it returns a response or, for every
\* failure of the send, the one request-failed error and no response.
C8_ProxyOutcome ==
    last.op = "proxy" =>
        /\ ~last.pre => (last.why = "notfound" /\ ~last.ok /\ last.h = 0 /\ last.rid = 0)
        /\ last.pre => last.why \in {"response", "failed"}
        /\ last.cause # "none" => (last.why = "failed" /\ ~last.ok /\ last.resp = NoLine)
        /\ last.ok <=> (last.why = "response" /\ last.resp # NoLine)

C8_Witness ==
    /\ last.op = "proxy"
    /\ last.pre
    /\ last.cause = "timeout"
    /\ last.why = "failed"

\* what a proxy_request of the router got back as items: those of the reply it
\* returned, none when it raised
Returned(out) == IF out.ok THEN ItemsOf(out.resp) ELSE <<>>

\* the items of the first k calls of a log, each with the id of the provider called
RECURSIVE Merge(_, _)
Merge(log, k) ==
    IF k = 0 THEN <<>>
    ELSE Merge(log, k - 1) \o
         [j \in 1..Len(Returned(log[k].out)) |->
             [name |-> Returned(log[k].out)[j].name, server_id |-> log[k].p]]

Advertises(out, name) ==
    out.ok /\ \E k \in 1..Len(ItemsOf(out.resp)) : ItemsOf(out.resp)[k].name = name

\* positions of the log at which the invocation was forwarded
Forwards(log) == {k \in 1..Len(log) : log[k].phase = "call"}

\* in a log of a tools/call request the first forward goes to the first provider,
\* in attachment order, whose listing names the capability
FirstForwardInOrder(log, conn, name) ==
    \A k \in Forwards(log) :
        (\A j \in Forwards(log) : k <= j) =>
            /\ k > 1
            /\ \A j \in 1..(k - 1) : log[j].phase = "list" /\ log[j].p = conn[j]
            /\ \A j \in 1..(k - 2) : ~Advertises(log[j].out, name)
            /\ Advertises(log[k - 1].out, name)
            /\ log[k].p = conn[k - 1]

\* C10: a tools/call naming X is forwarded first to the first attached provider,
\* in attachment order, whose capability listing names X: with two providers that
\* advertise X the one attached first gets the call, on every run.
C10_FirstAttachedWins ==
    /\ (last.op = "route" /\ IsToolCall(last.method)) =>
           FirstForwardInOrder(last.log, last.conn, tool_name(last.params))
    /\ \A t \in Tasks :
           (task[t].op = "route" /\ IsToolCall(route[t].method)) =>
               FirstForwardInOrder(route[t].log, route[t].conn, tool_name(route[t].params))

C10_Witness ==
    /\ last.op = "route"
    /\ IsToolCall(last.method)
    /\ last.ok
    /\ last.conn = <<2, 1>>
    /\ tool_name(last.params) = "echo"
    /\ Len(last.log) = 2
    /\ last.log[2].phase = "call"
    /\ last.log[2].p = 2

\* the method is answered by the primary-fallback strategy
IsOther(m) == m \notin ListMethods /\ ~IsToolCall(m)

\* C11: a method that is neither list-style nor a tool invocation is forwarded,
\* with the method and the params of the request as they came, to the provider
\* attached first and to no other provider; on a session without attached
\* providers the request fails with the no-providers error and calls nobody.
C11_PrimaryForward ==
    /\ (last.op = "route" /\ IsOther(last.method) /\ last.why # "nosession") =>
           IF last.conn = <<>>
           THEN ~last.ok /\ last.why = "noproviders" /\ last.log = <<>>
           ELSE /\ Len(last.log) = 1
                /\ last.log[1].p = last.conn[1]
                /\ last.log[1].method = last.method
                /\ last.log[1].params = last.params
                /\ last.ok = last.log[1].out.ok
                /\ last.resp = last.log[1].out.resp
    /\ \A t \in Tasks :
           (task[t].op = "route" /\ IsOther(route[t].method)) =>
               /\ route[t].conn # <<>>
               /\ route[t].log = <<>>
               /\ task[t].p \in {0, route[t].conn[1]}
               /\ task[t].p # 0 => (task[t].method = route[t].method /\ task[t].params = route[t].params)

C11_Witness ==
    /\ last.op = "route"
    /\ last.method = "ping"
    /\ last.conn = <<2, 1>>
    /\ last.params = [present |-> TRUE, name |-> "echo", id |-> 0]
    /\ last.ok
    /\ last.log[1].p = 2

C13_NotFoundIffNoneAdvertises ==
    (last.op = "route" /\ IsToolCall(last.method)
        /\ last.why \notin {"nosession", "missingtarget"}) =>
        /\ (last.why = "toolnotfound") <=>
               ~\E k \in 1..Len(last.log) :
                    last.log[k].phase = "list" /\ Advertises(last.log[k].out, tool_name(last.params))
        /\ last.why = "toolnotfound" => Forwards(last.log) = {}

\* C15: when the call forwarded on a direct route (to the provider found by the
\* capability lookup, or to the primary) fails, route_request ends there and
\* raises that failure: no further provider is called and no other error is raised.
C15_DirectFailureSurfaced ==
    (last.op = "route" /\ last.method \notin ListMethods) =>
        \A k \in 1..Len(last.log) :
            (last.log[k].phase \in {"call", "primary"} /\ ~last.log[k].out.ok) =>
                /\ k = Len(last.log)
                /\ ~last.ok
                /\ last.why = last.log[k].out.why

\* the sessions table holds an active row for the session id
Durable(rows, sid) == rows[sid].exists /\ rows[sid].is_active

\* C14: route_request with a session id that was never issued, or whose session
\* the sweep has deactivated and evicted, fails with the not-found error at once:
\* no routing begins, no request id is generated and nothing is sent to a provider.
C14_UnknownSessionNotFound ==
    [][ /\ \A t \in Tasks :
             (task[t].op = "idle" /\ task'[t].op = "route") => Durable(db_sessions, route'[t].sid)
        /\ (last'.op = "route" /\ task[last'.task].op = "idle"
               /\ ~Durable(db_sessions, last'.sid)) =>
             /\ ~last'.ok
             /\ last'.why = "nosession"
             /\ last'.log = <<>>
             /\ nextId' = nextId
             /\ transport' = transport ]_vars

C14_Witness ==
    /\ last.op = "route"
    /\ last.why = "nosession"
    /\ last.sid = "s1"
    /\ db_sessions["s1"].exists
    /\ ~db_sessions["s1"].is_active
    /\ db_sessions["s1"].last_activity = 1
    /\ \A p \in Providers : IsActive(p)

\* C20: a sweep marks inactive, and removes from the in-memory index, every
\* active session whose last activity is more than the idle threshold (one hour)
\* before the time of the sweep; a sweep that finds no such session changes
\* neither the sessions table nor the index, and does not fail.
C20_SweepEvictsIdle ==
    [][ last'.op = "sweep" =>
          LET old == {s \in SessionIds : /\ db_sessions[s].exists
                                          /\ db_sessions[s].is_active
                                          /\ now' - db_sessions[s].last_activity > IdleThreshold}
          IN  /\ last'.ok
              /\ \A s \in old : ~db_sessions'[s].is_active /\ ~sessions'[s].present
              /\ \A s \in SessionIds \ old :
                     db_sessions'[s] = db_sessions[s] /\ sessions'[s] = sessions[s] ]_vars

C20_Witness ==
    /\ last.op = "sweep"
    /\ db_sessions["s1"].exists /\ ~db_sessions["s1"].is_active /\ ~sessions["s1"].present
    /\ db_sessions["s1"].last_activity = now - 2
    /\ db_sessions["s2"].is_active /\ sessions["s2"].present
    /\ db_sessions["s2"].last_activity = now - 1

\* C17: when a health check of a provider fails, auto_restart is set and
\* restart_count is below max_restarts, restart_count goes up by one (a restart is
\* scheduled).
C17_FailedCheckSchedulesRestart ==
    [][ (last'.op = "health" /\ ~last'.ok /\ auto_restart(last'.p)
            /\ restart_count[last'.p] < max_restarts(last'.p)) =>
          restart_count'[last'.p] = restart_count[last'.p] + 1 ]_vars

\* C18: a health check of a provider that has a registry entry sends a ping; when
\* the ping returns the check returns true, last_health_check is the time of the
\* check and the status is ACTIVE; when the ping fails the check returns false and
\* the status is ERROR.
C18_HealthCheckOutcome ==
    (last.op = "health" /\ last.pre) =>
        /\ last.method = "ping"
        /\ last.rid # 0
        /\ last.ok <=> last.why = "response"
        /\ last.ok => (status[last.p] = ACTIVE /\ last_health_check[last.p] = now)
        /\ ~last.ok => status[last.p] = ERROR

C18_Witness ==
    /\ last.op = "health"
    /\ last.pre
    /\ last.ok
    /\ now = 4
    /\ last_health_check[last.p] = 4
    /\ status[last.p] = ACTIVE

\* the providers of a sequence
Range(q) == {q[k] : k \in 1..Len(q)}

C22_CreateSessionFresh ==
    [][ last'.op = "create" =>
          LET sid == last'.sid IN
          /\ ~sessions[sid].present
          /\ ~db_sessions[sid].exists
          /\ sessions'[sid] = [present |-> TRUE, connected_servers |-> <<>>]
          /\ db_sessions'[sid] = [exists |-> TRUE, is_active |-> TRUE, last_activity |-> now]
          /\ \A s \in SessionIds \ {sid} :
                 sessions'[s] = sessions[s] /\ db_sessions'[s] = db_sessions[s] ]_vars

C22_Witness ==
    /\ last.op = "create"
    /\ last.sid = "s3"
    /\ sessions["s3"] = [present |-> TRUE, connected_servers |-> <<>>]
    /\ db_sessions["s2"].exists
    /\ sessions["s2"].present
    /\ sessions["s1"] = [present |-> TRUE, connected_servers |-> <<1, 2>>]

\* C23: get_server_capabilities always returns: no error of the initialize
\* exchange reaches its caller, and whenever the exchange failed (no registry
\* entry, timeout, closed pipe, HTTP error, malformed reply) the capability set it
\* returns is empty.
C23_CapabilitiesNeverRaise ==
    last.op = "caps" =>
        /\ last.ok
        /\ last.why # "response" => last.result = <<>>
        /\ last.result # <<>> => last.result = <<last.resp>>

C23_Witness ==
    /\ last.op = "caps"
    /\ last.ok
    /\ last.why = "failed"
    /\ last.cause = "timeout"
    /\ last.result = <<>>

\* C24: every response to an inbound request, on the aggregate route, the
\* capability-lookup route, the primary route and for errors, is a JSON-RPC 2.0
\* envelope whose id is the id the caller put in the request.
C24_EnvelopeHasCallerId ==
    last.op = "route" => last.envelope = [jsonrpc |-> TRUE, id |-> last.request_id]

\* the provider state machine: INACTIVE -> STARTING -> ACTIVE,
\* ACTIVE -> STOPPING -> INACTIVE, any state -> ERROR, ERROR -> STARTING
StateMachine ==
    {<<INACTIVE, STARTING>>, <<STARTING, ACTIVE>>, <<ACTIVE, STOPPING>>,
     <<STOPPING, INACTIVE>>, <<ERROR, STARTING>>}
        \cup {<<s, ERROR>> : s \in {INACTIVE, STARTING, ACTIVE, STOPPING}}

\* C25: every change of a provider's status is a transition of the provider state
\* machine; INACTIVE never becomes ACTIVE directly, nor does ERROR.
C25_StatusFollowsStateMachine ==
    [][ \A p \in Providers :
          status'[p] # status[p] => <<status[p], status'[p]>> \in StateMachine ]_vars

\* the calls on transport h between the write of the request and the read of the
\* response line (or the answer to the POST)
InFlight(h) == {t \in Tasks : task[t].pc \in {"recv", "http_wait"} /\ task[t].h = h}

\* C26: on a stdio transport at most one request at a time is between "written to
\* the provider's input" and "response line read".
C26_OneInFlightPerTransport ==
    \A h \in Handles : transport[h].kind = "stdio" => Cardinality(InFlight(h)) <= 1

\* C27: with one caller at a time on a stdio transport, a send that returns a
\* response never returns the response to an earlier request (one whose send
\* timed out before the provider answered).
C27_LateResponseDiscarded ==
    (last.op = "proxy" /\ last.ok /\ transport[last.h].kind = "stdio")
        => ~(last.resp.id < last.rid)

\* C28: a stop_server call closes a transport (the subprocess is gone, the HTTP
\* client is closed) only when no proxy_request call is in flight on it.
C28_ClosedAfterCallersFailed ==
    [][ \A h \in Handles :
          (transport[h].state = "live" /\ transport'[h].state \in {"dead", "closed"})
              => InFlight(h) = {} ]_vars

\* C29: route_request on a known session with no provider attached fails with the
\* no-providers error, whatever the method.
C29_EmptyListNoProviders ==
    (last.op = "route" /\ last.why # "nosession" /\ last.conn = <<>>)
        => (~last.ok /\ last.why = "noproviders")

\* C30: at a tick the monitor queries exactly the ACTIVE providers, and when it
\* passes one of them it calls health_check for it exactly when the time since its
\* last_health_check is at least its health_check_interval (equal included).
C30_CheckedWhenIntervalElapsed ==
    [][ /\ (monitor.pc = "sleep" /\ monitor'.pc = "loop") =>
              Range(monitor'.snapshot) = {p \in Providers : status[p] = ACTIVE}
        /\ (monitor.pc = "loop" /\ monitor.queue # <<>> /\ monitor'.queue # monitor.queue) =>
              LET p == Head(monitor.queue) IN
              (monitor'.checked # monitor.checked) <=>
                  (\/ last_health_check[p] = Never
                   \/ now - last_health_check[p] >= health_check_interval(p)) ]_vars

\* C31: whatever the order of create_session calls and sweeps, a session id is in
\* the in-memory index exactly when the sessions table has a row with that id that
\* is marked active.
C31_IndexMatchesTable ==
    \A sid \in SessionIds : sessions[sid].present <=> Durable(db_sessions, sid)

C31_Witness ==
    /\ last.op = "create"
    /\ last.sid = "s2"
    /\ db_sessions["s1"].exists /\ ~db_sessions["s1"].is_active /\ ~sessions["s1"].present
    /\ db_sessions["s2"].is_active /\ sessions["s2"].present
    /\ ~db_sessions["s3"].exists /\ ~sessions["s3"].present

\* C32: a sweep that runs right after a request was routed through a session (the
\* request returned since the previous sweep, less than the idle threshold
\* before this one) neither marks that session inactive nor evicts it.
C32_RoutedSessionKept ==
    [][ (last.op = "route" /\ last.ok /\ last'.op = "sweep") =>
          (sessions'[last.sid].present /\ Durable(db_sessions', last.sid)) ]_vars

\* C33: when the shutdown phase has completed, the registry is empty and no
\* subprocess or HTTP client of any provider is alive, whatever the status of the
\* provider was.
C33_ShutdownStopsEveryProvider ==
    shutdown.pc = "done" =>
        \A p \in Providers : ~IsActive(p) /\ LiveTransports(p) = {}

\* C34: a stdio transport is opened successfully only when the line read in the
\* handshake is the provider's answer to the handshake request and is a JSON-RPC
\* response; a line the provider prints without answering the request does not
\* open the transport.
C34_HandshakeNeedsAnswer ==
    (last.op = "start" /\ last.ok /\ transport[last.h].kind = "stdio") =>
        /\ last.resp.form \in JsonRpcForms
        /\ last.resp.method = "ping"

\* the position of provider p in an attach list
IndexOf(conn, p) == CHOOSE i \in 1..Len(conn) : conn[i] = p

\* C35: in the capability lookup of a tools/call request, a provider whose listing
\* failed or does not name the capability is passed over: the provider attached
\* next is asked for its listing (after the last one the request ends with the
\* capability-not-found error), and a provider whose listing names the capability
\* is sent the invocation as it came.
C35_LookupPassesOverFailedListing ==
    (last.op = "route" /\ IsToolCall(last.method) /\ last.log # <<>>) =>
        \A k \in 1..Len(last.log) :
            LET e == last.log[k]
                i == IndexOf(last.conn, e.p)
            IN  e.phase = "list" =>
                  IF Advertises(e.out, tool_name(last.params))
                  THEN /\ k < Len(last.log)
                       /\ last.log[k + 1].phase = "call"
                       /\ last.log[k + 1].p = e.p
                       /\ last.log[k + 1].method = last.method
                       /\ last.log[k + 1].params = last.params
                  ELSE IF i < Len(last.conn)
                  THEN /\ k < Len(last.log)
                       /\ last.log[k + 1].phase = "list"
                       /\ last.log[k + 1].p = last.conn[i + 1]
                  ELSE /\ k = Len(last.log)
                       /\ ~last.ok
                       /\ last.why = "toolnotfound"

C35_Witness ==
    /\ last.op = "route"
    /\ IsToolCall(last.method)
    /\ last.ok
    /\ last.conn = <<1, 2>>
    /\ Len(last.log) = 3
    /\ last.log[1].phase = "list" /\ ~last.log[1].out.ok
    /\ last.log[2].phase = "list" /\ last.log[2].p = 2
    /\ last.log[3].phase = "call" /\ last.log[3].p = 2

\* C36: one tools/call request has its invocation forwarded to at most one
\* provider, whether the forward succeeds or fails.
C36_AtMostOneForward ==
    /\ (last.op = "route" /\ IsToolCall(last.method)) => Cardinality(Forwards(last.log)) <= 1
    /\ \A t \in Tasks :
           (task[t].op = "route" /\ IsToolCall(route[t].method)) =>
               Cardinality(Forwards(route[t].log)) <= 1

\* C37: a provider that has an entry in the registry, so that proxy_request sends
\* to it, has status ACTIVE.
C37_RegisteredIsActive ==
    \A p \in Providers : IsActive(p) => status[p] = ACTIVE

\* C38: once a stop_server call and a health_check call on the same provider have
\* both completed, in whatever order their steps ran, a provider whose status is
\* ACTIVE has an entry in the registry.
C38_ActiveHasEntry ==
    AllIdle => \A p \in Providers : status[p] = ACTIVE => IsActive(p)

\* C39: no step changes the attached-provider list of a session that stays in the
\* index, and every route_request works, from its first step to its return, on
\* the list its session holds.
C39_AttachListUnchanged ==
    [][ /\ \A sid \in SessionIds :
             (sessions[sid].present /\ sessions'[sid].present) =>
                 sessions'[sid].connected_servers = sessions[sid].connected_servers
        /\ \A t \in Tasks :
             /\ (task[t].op = "idle" /\ task'[t].op = "route") =>
                    route'[t].conn = sessions[route'[t].sid].connected_servers
             /\ (task[t].op = "route" /\ task'[t].op = "route") => route'[t].conn = route[t].conn
        /\ (last'.op = "route" /\ last'.why # "nosession") =>
             last'.conn = IF task[last'.task].op = "route" THEN route[last'.task].conn
                          ELSE sessions[last'.sid].connected_servers ]_vars

C39_Witness ==
    /\ last.op = "route"
    /\ last.ok
    /\ last.sid = "s1"
    /\ last.conn = <<1, 2>>
    /\ sessions["s1"].connected_servers = <<1, 2>>
    /\ sessions["s2"] = [present |-> TRUE, connected_servers |-> <<>>]
    /\ now = 2

\* C40: an authorization code is exchanged at most once. An exchange succeeds
\* only on a stored code that was not used, marks it used and creates exactly one
\* session; a used code stays used, and every exchange of it fails; an exchange
\* that fails creates no session; one that fails for a client id or redirect URI
\* that does not match leaves the code as it was.
C40_CodeExchangedOnce ==
    [][ /\ last'.op = "token" =>
             LET code_data == authorization_codes[last'.code] IN
             /\ last'.ok =>
                   /\ code_data.state = "stored"
                   /\ ~code_data.used
                   /\ code_data.client_id = last'.client_id
                   /\ code_data.redirect_uri = last'.redirect_uri
                   /\ authorization_codes'[last'.code].used
                   /\ Cardinality({s \in SessionIds : sessions'[s].present /\ ~sessions[s].present}) = 1
                   /\ Cardinality({s \in SessionIds : db_sessions'[s].exists /\ ~db_sessions[s].exists}) = 1
             /\ code_data.used => ~last'.ok
             /\ ~last'.ok => (sessions' = sessions /\ db_sessions' = db_sessions)
             /\ (last'.why = "mismatch") =>
                   (~last'.ok /\ authorization_codes' = authorization_codes)
             /\ (/\ code_data.state = "stored"
                 /\ ~code_data.used
                 /\ now - code_data.created_at <= CodeLifetime
                 /\ (\/ code_data.client_id # last'.client_id
                     \/ code_data.redirect_uri # last'.redirect_uri)) => last'.why = "mismatch"
        /\ \A c \in Codes :
             authorization_codes[c].used => authorization_codes'[c] = authorization_codes[c] ]_vars

C40_Witness ==
    /\ last.op = "token"
    /\ ~last.ok
    /\ last.why = "used"
    /\ authorization_codes[last.code].used
    /\ authorization_codes[last.code].client_id = last.client_id
    /\ authorization_codes[last.code].redirect_uri = last.redirect_uri
    /\ Cardinality({s \in SessionIds : sessions[s].present}) = 1

====
